---- MODULE Spec2Model ----
(***************************************************************************)
(* A model of the ExpressLink host library (aws_iot_expresslink.py): the   *)
(* escape codec, the bounded line reader, the command engine (cmd), the    *)
(* bring-up (reset line and self-test) and the callers of cmd: the         *)
(* connectivity predicates, the configuration dictionary, get_event and    *)
(* get_message.                                                            *)
(*                                                                         *)
(* Text is a sequence of one-character tokens.  The control characters are *)
(* named: "bs" backslash, "cr" carriage return, "lf" line feed, "sp"       *)
(* space, "nul" NUL.  "e_acute" is a non-ASCII character whose UTF-8 form   *)
(* is the two bytes "xC3" "xA9"; bytes and characters coincide on ASCII.   *)
(***************************************************************************)
EXTENDS Integers, Sequences, FiniteSets, TLC

BS == "bs"
CR == "cr"
LF == "lf"
SP == "sp"
NUL == "nul"

(***************************************************************************)
(* Bounds of the model.                                                    *)
(***************************************************************************)
MaxCodecLen == 3
MaxCmdLen == 2
MaxBodyLen == 3
MaxLineLen == 3

(***************************************************************************)
(* Python's string primitives, as the library uses them.                   *)
(***************************************************************************)

\* All texts over alphabet of length at most n.
Texts(alphabet, n) == UNION { [1..k -> alphabet] : k \in 0..n }

\* s.startswith(p)
StartsWith(s, p) == Len(s) >= Len(p) /\ SubSeq(s, 1, Len(p)) = p

\* s.endswith(p)
EndsWith(s, p) == Len(s) >= Len(p) /\ SubSeq(s, Len(s) - Len(p) + 1, Len(s)) = p

\* s[i:] with 0 <= i
DropFirst(s, i) == SubSeq(s, i + 1, Len(s))

\* s[0:i] with 0 <= i
TakeFirst(s, i) == SubSeq(s, 1, i)

\* s.find(ch): the 0-based index of the first ch, -1 when there is none.
Find(s, ch) ==
  IF \E i \in 1..Len(s) : s[i] = ch
  THEN (CHOOSE i \in 1..Len(s) : s[i] = ch /\ \A k \in 1..(i - 1) : s[k] # ch) - 1
  ELSE -1

\* s.replace(ch, new) for a one-character ch.
RECURSIVE ReplaceChar(_, _, _)
ReplaceChar(s, ch, new) ==
  IF s = <<>> THEN <<>>
  ELSE (IF Head(s) = ch THEN new ELSE <<Head(s)>>) \o ReplaceChar(Tail(s), ch, new)

\* s.replace(a + b, new) for a two-character pattern: Python scans left to
\* right and replaces non-overlapping occurrences.
RECURSIVE ReplacePair(_, _, _, _)
ReplacePair(s, a, b, new) ==
  IF Len(s) < 2 THEN s
  ELSE IF s[1] = a /\ s[2] = b THEN new \o ReplacePair(DropFirst(s, 2), a, b, new)
  ELSE <<s[1]>> \o ReplacePair(Tail(s), a, b, new)

\* s.strip(chars): drop the characters of the set from both ends.
RECURSIVE LStrip(_, _)
LStrip(s, chars) ==
  IF s # <<>> /\ Head(s) \in chars THEN LStrip(Tail(s), chars) ELSE s

RECURSIVE RStrip(_, _)
RStrip(s, chars) ==
  IF s # <<>> /\ s[Len(s)] \in chars THEN RStrip(SubSeq(s, 1, Len(s) - 1), chars) ELSE s

StripChars(s, chars) == RStrip(LStrip(s, chars), chars)

\* The whitespace of str.strip() and int() among the modelled characters.
Whitespace == {SP, CR, LF, "tab"}

\* s.strip()
Strip(s) == StripChars(s, Whitespace)

\* str.split(sep) with a one-character separator: the pieces between the
\* separators, empty pieces included.
RECURSIVE Split(_, _)
Split(s, sep) ==
  LET k == Find(s, sep)
  IN  IF k < 0 THEN <<s>>
      ELSE <<TakeFirst(s, k)>> \o Split(DropFirst(s, k + 1), sep)

Digits == {"0", "1", "2", "3", "4", "5", "6", "7", "8", "9"}

DigitVal(d) ==
  CASE d = "0" -> 0 [] d = "1" -> 1 [] d = "2" -> 2 [] d = "3" -> 3 [] d = "4" -> 4
    [] d = "5" -> 5 [] d = "6" -> 6 [] d = "7" -> 7 [] d = "8" -> 8 [] d = "9" -> 9

\* int(s) raises ValueError unless s, with surrounding whitespace dropped, is a
\* non-empty run of digits (signs and underscores are not among the modelled
\* characters).
IntParses(s) ==
  LET t == Strip(s) IN t # <<>> /\ \A i \in 1..Len(t) : t[i] \in Digits

RECURSIVE DecimalVal(_)
DecimalVal(t) ==
  IF t = <<>> THEN 0 ELSE 10 * DecimalVal(SubSeq(t, 1, Len(t) - 1)) + DigitVal(t[Len(t)])

IntVal(s) == DecimalVal(Strip(s))

\* str(n) of a natural number, as an f-string formats it.
RECURSIVE Str(_)
Str(n) ==
  LET d == <<"0", "1", "2", "3", "4", "5", "6", "7", "8", "9">>[(n % 10) + 1]
  IN  IF n < 10 THEN <<d>> ELSE Str(n \div 10) \o <<d>>

\* The length of the longest prefix of s made of characters of the set.
RECURSIVE Run(_, _)
Run(s, chars) ==
  IF s # <<>> /\ Head(s) \in chars THEN 1 + Run(Tail(s), chars) ELSE 0

\* The length of the longest prefix of s made of characters outside the set.
RECURSIVE RunOutside(_, _)
RunOutside(s, chars) ==
  IF s # <<>> /\ Head(s) \notin chars THEN 1 + RunOutside(Tail(s), chars) ELSE 0

\* str.encode(): UTF-8.  ASCII characters are their own byte.
RECURSIVE Encode(_)
Encode(s) ==
  IF s = <<>> THEN <<>>
  ELSE (IF Head(s) = "e_acute" THEN <<"xC3", "xA9">> ELSE <<Head(s)>>) \o Encode(Tail(s))

\* bytes.decode(): UTF-8, strict.  A lead byte without its continuation byte,
\* or a continuation byte alone, raises UnicodeDecodeError.
RECURSIVE Decodes(_)
Decodes(b) ==
  IF b = <<>> THEN TRUE
  ELSE IF Head(b) = "xC3" THEN Len(b) >= 2 /\ b[2] = "xA9" /\ Decodes(DropFirst(b, 2))
  ELSE IF Head(b) = "xA9" THEN FALSE
  ELSE Decodes(Tail(b))

RECURSIVE Decode(_)
Decode(b) ==
  IF b = <<>> THEN <<>>
  ELSE IF Head(b) = "xC3" THEN <<"e_acute">> \o Decode(DropFirst(b, 2))
  ELSE <<Head(b)>> \o Decode(Tail(b))

(***************************************************************************)
(* The codec.                                                              *)
(***************************************************************************)

\* An escape that doubles the backslashes last, and so doubles those of the
\* escapes it has just written.
_escape_BackslashLast(s) ==
  LET s1 == ReplaceChar(s, CR, <<BS, "D">>)
      s2 == ReplaceChar(s1, LF, <<BS, "A">>)
  IN  ReplaceChar(s2, BS, <<BS, BS>>)

\* _escape: three successive replace() calls on the whole text.
_escape(s) ==
  LET s1 == ReplaceChar(s, BS, <<BS, BS>>)
      s2 == ReplaceChar(s1, CR, <<BS, "D">>)
  IN  ReplaceChar(s2, LF, <<BS, "A">>)

\* _unescape: three successive replace() calls on the whole text.
_unescape(s) ==
  LET s1 == ReplacePair(s, BS, "A", <<LF>>)
      s2 == ReplacePair(s1, BS, "D", <<CR>>)
  IN  ReplacePair(s2, BS, BS, <<BS>>)

(***************************************************************************)
(* The line reader.                                                        *)
(*                                                                         *)
(* What the transport returns to the polls of one _readline call is a      *)
(* schedule: a sequence of [at |-> poll number, chunk |-> bytes] with      *)
(* increasing poll numbers (counted from 1 within the call); every other   *)
(* poll returns nothing.                                                   *)
(***************************************************************************)

\* counter = 300: the polls of one _readline call.
counter == 300

\* A loop that polls once more than counter allows.
RECURSIVE ReadLoop_OnePollMore(_, _, _)
ReadLoop_OnePollMore(i, acc, sched) ==
  IF i > counter + 1 \/ sched = <<>>
  THEN [acc |-> acc, polls |-> counter, timeout |-> TRUE]
  ELSE IF Head(sched).at > i THEN ReadLoop_OnePollMore(Head(sched).at, acc, sched)
  ELSE LET l2 == acc \o Head(sched).chunk
       IN  IF EndsWith(l2, <<LF>>)
           THEN [acc |-> l2, polls |-> i, timeout |-> FALSE]
           ELSE ReadLoop_OnePollMore(i + 1, l2, Tail(sched))

\* A loop that keeps the last chunk only: l = p in the place of l += p.
RECURSIVE ReadLoop_KeepsLastChunk(_, _, _)
ReadLoop_KeepsLastChunk(i, acc, sched) ==
  IF i > counter \/ sched = <<>>
  THEN [acc |-> acc, polls |-> counter, timeout |-> TRUE]
  ELSE IF Head(sched).at > i THEN ReadLoop_KeepsLastChunk(Head(sched).at, acc, sched)
  ELSE LET l2 == Head(sched).chunk
       IN  IF EndsWith(l2, <<LF>>)
           THEN [acc |-> l2, polls |-> i, timeout |-> FALSE]
           ELSE ReadLoop_KeepsLastChunk(i + 1, l2, Tail(sched))

\* The for loop of _readline from poll i on, with accumulator acc.  A poll that
\* returns nothing leaves the accumulator as it is, so the polls before the
\* next scheduled chunk are passed over in one step.  The loop's else branch
\* (no break within the 300 polls) is the timeout.
RECURSIVE ReadLoop(_, _, _)
ReadLoop(i, acc, sched) ==
  IF i > counter \/ sched = <<>>
  THEN [acc |-> acc, polls |-> counter, timeout |-> TRUE]
  ELSE IF Head(sched).at > i THEN ReadLoop(Head(sched).at, acc, sched)
  ELSE LET l2 == acc \o Head(sched).chunk
       IN  IF EndsWith(l2, <<LF>>)
           THEN [acc |-> l2, polls |-> i, timeout |-> FALSE]
           ELSE ReadLoop(i + 1, l2, Tail(sched))

\* The characters l.strip("\r\n\x00\xff\xfe\xfd\xfc\xfb\xfa") drops.
ReadlineStrip == {CR, LF, NUL, "U+FF", "U+FE", "U+FD", "U+FC", "U+FB", "U+FA"}

\* A line reader that hands the line back still escaped.
ReadlineResult_NoUnescape(r) ==
  IF Decodes(r.acc)
  THEN [raised |-> FALSE, raw |-> r.acc, polls |-> r.polls, timeout |-> r.timeout,
        line |-> StripChars(Decode(r.acc), ReadlineStrip)]
  ELSE [raised |-> TRUE, raw |-> r.acc, polls |-> r.polls, timeout |-> r.timeout,
        line |-> <<>>]

\* The end of _readline: decode, strip and unescape what the loop accumulated.
\* raised: decode() raised UnicodeDecodeError.
ReadlineResult(r) ==
  IF Decodes(r.acc)
  THEN [raised |-> FALSE, raw |-> r.acc, polls |-> r.polls, timeout |-> r.timeout,
        line |-> _unescape(StripChars(Decode(r.acc), ReadlineStrip))]
  ELSE [raised |-> TRUE, raw |-> r.acc, polls |-> r.polls, timeout |-> r.timeout,
        line |-> <<>>]

\* _readline: the loop, then decode, strip and unescape.
_readline(sched) == ReadlineResult(ReadLoop(1, <<>>, sched))

(***************************************************************************)
(* The transport's side: the lines the module may send and the ways the    *)
(* transport may deliver one line to the polls.                            *)
(***************************************************************************)

\* Poll numbers at which a chunk may arrive: at once, at the last poll (after
\* a run of empty polls), and too late for this call.
ArrivalTimes == {1, counter, counter + 1}

\* The line w arrives whole, or cut in two at any place.
Schedules(w) ==
  { <<[at |-> t, chunk |-> w]>> : t \in ArrivalTimes }
  \cup
  { <<[at |-> t[1], chunk |-> TakeFirst(w, k)], [at |-> t[2], chunk |-> DropFirst(w, k)]>> :
      k \in 1..(Len(w) - 1),
      t \in { p \in ArrivalTimes \X ArrivalTimes : p[1] < p[2] } }

Terminators == { <<LF>>, <<CR, LF>> }

OK == <<"O", "K">>
ERR == <<"E", "R", "R">>

Prefixes == { OK, ERR, <<>> }
BodyAlphabet == {SP, "x", BS, "A"}
Counts == { <<"1">>, <<"2">> }
CountedBodies == { <<>>, <<SP>>, <<SP, "x">>, <<SP, "x", SP>>, <<"x", SP>>, <<BS, "A", SP, "x">> }

\* What the module may send after a count: every body after the count 1, the
\* bodies of one space and of a space and a character after the count 2.
BodiesAfter(cnt) == IF cnt = <<"1">> THEN CountedBodies ELSE { <<SP>>, <<SP, "x">> }

\* Status lines on the wire: a prefix and a body; a prefix, a count and a
\* body; and lines with an escaped CR, a non-ASCII character or padding.
StatusWire ==
  { Encode(pre \o body) \o t :
      pre \in Prefixes, body \in Texts(BodyAlphabet, MaxBodyLen), t \in Terminators }
  \cup
  UNION { { Encode(pre \o cnt \o body) \o t :
              pre \in Prefixes, body \in BodiesAfter(cnt), t \in Terminators } :
          cnt \in Counts }
  \cup
  { Encode(OK \o <<SP, "x", BS, "A", "x", BS, "D", "x", BS, BS, "x">>) \o <<CR, LF>>,
    Encode(OK \o <<SP, "e_acute">>) \o <<CR, LF>>,
    Encode(OK) \o <<NUL, CR, LF>> }

\* Continuation lines on the wire.
ContWire ==
  { Encode(body) \o <<CR, LF>> :
      body \in { <<>>, <<"x">>, <<"x", SP>>, <<SP>>, <<BS, "A">>, <<"e_acute">> } }

\* Lines the module may answer the self-test probe with.
ProbeWire ==
  { Encode(body) \o t :
      body \in { OK, <<SP>> \o OK, OK \o <<SP>>, OK \o <<"x">>, ERR, <<>>, <<"e_acute">> },
      t \in Terminators }

(***************************************************************************)
(* State.                                                                  *)
(***************************************************************************)
VARIABLES
  pc,               \* where the host program is: "construct", "selftest", "idle",
                    \* "cmd_sent", "cmd_status", "cmd_more", "done"
  hasDiscard,       \* the transport offers reset_input_buffer
  ready,            \* ExpressLink.ready: "unset", "true", "false"
  caller,           \* who called self_test: "init" (__init__) or "user"
  attempts,         \* self_test: what each attempt so far came to
  command,          \* cmd: the argument of the call whose frame is on the wire
  tx,               \* the bytes written and not yet taken by the module
  l,                \* cmd: its local l
  additional_lines, \* cmd: its local additional_lines
  success,          \* cmd: its local success
  error_code,       \* cmd: its local error_code (<<>> is None, <<n>> is n)
  outcome,          \* the last call: "none", "returned", or the exception it raised
  result,           \* the last call's return value
  reads,            \* the _readline calls of the call, in order
  trace,            \* the transport and pin operations of the call, in order
  platform,         \* "circuitpython", "micropython" or "other" (pySerial)
  reset_pin,        \* __init__ was given a reset pin
  event_pin,        \* __init__ was given an event pin
  reset_signal,     \* the level _set_pin last gave the reset line: "unset", "low", "high"
  _topics,          \* Config._topics: topic index -> topic name
  op,               \* the caller of cmd that is running: "none" when cmd was called directly
  op_arg,           \* its arguments
  op_outcome,       \* "none" while it runs, then "returned" or the exception it raised
  op_result,        \* what it returned, or the message of its exception
  topics_before,    \* Config._topics as it was when the running caller was called
  codec_pc,         \* codec check: "off", "start", "escaped", "done"
  codec_s,          \* codec check: the text given to _escape
  codec_e,          \* codec check: _escape(codec_s)
  codec_u,          \* codec check: _unescape(codec_e)
  rl_pc,            \* line reader check: "off", "start", "done"
  rl_sched,         \* line reader check: what the polls of the call are to return
  rl_out            \* line reader check: what _readline returned

codecVars == <<codec_pc, codec_s, codec_e, codec_u>>

readerVars == <<rl_pc, rl_sched, rl_out>>

\* The variables of the checks of the pure functions.
pureVars == <<codec_pc, codec_s, codec_e, codec_u, rl_pc, rl_sched, rl_out>>

cmdLocals == <<l, additional_lines, success, error_code>>

\* What __init__ is given and the interpreter it runs on.
buildVars == <<platform, reset_pin, event_pin>>

opVars == <<op, op_arg, op_outcome, op_result, topics_before>>

hostVars == <<pc, hasDiscard, ready, caller, attempts, command, tx, l, additional_lines,
              success, error_code, outcome, result, reads, trace,
              platform, reset_pin, event_pin, reset_signal, _topics,
              op, op_arg, op_outcome, op_result, topics_before>>

vars == <<pc, hasDiscard, ready, caller, attempts, command, tx, l, additional_lines,
          success, error_code, outcome, result, reads, trace,
          platform, reset_pin, event_pin, reset_signal, _topics,
          op, op_arg, op_outcome, op_result, topics_before,
          codec_pc, codec_s, codec_e, codec_u, rl_pc, rl_sched, rl_out>>

None == <<>>
Some(n) == <<n>>

\* No check of the line reader is running.
ReaderOff ==
  /\ rl_pc = "off"
  /\ rl_sched = <<>>
  /\ rl_out = <<>>

\* The host program before anything ran.
HostStart ==
  /\ pc = "construct"
  /\ ready = "unset"
  /\ caller = "init"
  /\ attempts = <<>>
  /\ command = <<>>
  /\ tx = <<>>
  /\ l = <<>>
  /\ additional_lines = 0
  /\ success = FALSE
  /\ error_code = None
  /\ outcome = "none"
  /\ result = <<>>
  /\ reads = <<>>
  /\ trace = <<>>
  /\ reset_signal = "unset"
  /\ _topics = <<>>
  /\ op = "none"
  /\ op_arg = <<>>
  /\ op_outcome = "none"
  /\ op_result = <<>>
  /\ topics_before = <<>>

(***************************************************************************)
(* Construction and the self-test.                                         *)
(***************************************************************************)

\* A self_test that gives up one attempt early.
SelfTestAttempts_Short == 5 - 1

\* range(5): the attempts of one self_test call.
SelfTestAttempts == 5

\* _set_pin(pin, value): the level the pin is given.  The CircuitPython branch
\* assigns True whatever the value asked for.
_set_pin(value) ==
  IF platform = "circuitpython" THEN "high"
  ELSE IF value THEN "high" ELSE "low"

\* __init__ up to its call of self_test: with a reset pin, _set_pin(False),
\* sleep, _set_pin(True), sleep.
Construct ==
  /\ pc = "construct"
  /\ pc' = "selftest"
  /\ caller' = "init"
  /\ attempts' = <<>>
  /\ trace' = IF reset_pin
               THEN <<"reset_" \o _set_pin(FALSE), "sleep", "reset_" \o _set_pin(TRUE), "sleep">>
               ELSE <<>>
  /\ reset_signal' = IF reset_pin THEN _set_pin(TRUE) ELSE reset_signal
  /\ UNCHANGED <<hasDiscard, ready, command, tx, cmdLocals, outcome, result, reads>>
  /\ UNCHANGED <<buildVars, _topics, opVars>>
  /\ UNCHANGED pureVars

\* r.strip() == "OK"
IsSelfTestOK(r) == Strip(r) = OK

\* What one attempt comes to once its _readline returned rl.
AttemptKind(rl) ==
  IF rl.raised THEN "read_raised"
  ELSE IF IsSelfTestOK(rl.line) THEN "ok"
  ELSE "no"

\* A self_test without the try: the exception of an attempt ends the call.
SelfTestStep_RaiseAborts(kind, ops) ==
  LET log == Append(attempts, kind)
      raises == kind \in {"write_raised", "read_raised"}
      returns == kind = "ok" \/ Len(log) >= SelfTestAttempts
  IN  /\ attempts' = log
      /\ trace' = trace \o ops
      /\ pc' = IF returns \/ raises THEN "done" ELSE "selftest"
      /\ outcome' = IF raises THEN "OSError" ELSE IF returns THEN "returned" ELSE outcome
      /\ result' = IF returns /\ ~raises THEN <<kind = "ok">> ELSE result
      /\ ready' = IF returns /\ ~raises /\ caller = "init"
                  THEN (IF kind = "ok" THEN "true" ELSE "false")
                  ELSE ready
      /\ UNCHANGED <<hasDiscard, caller, command, tx, cmdLocals, reads>>
      /\ UNCHANGED <<buildVars, reset_signal, _topics, opVars>>
      /\ UNCHANGED pureVars

\* The end of one pass of self_test's loop: return True on "ok", return False
\* after the last attempt, otherwise the next attempt.  __init__ sets ready
\* from the value returned.
SelfTestStep(kind, ops) ==
  LET log == Append(attempts, kind)
      returns == kind = "ok" \/ Len(log) >= SelfTestAttempts
  IN  /\ attempts' = log
      /\ trace' = trace \o ops
      /\ pc' = IF returns THEN "done" ELSE "selftest"
      /\ outcome' = IF returns THEN "returned" ELSE outcome
      /\ result' = IF returns THEN <<kind = "ok">> ELSE result
      /\ ready' = IF returns /\ caller = "init"
                  THEN (IF kind = "ok" THEN "true" ELSE "false")
                  ELSE ready
      /\ UNCHANGED <<hasDiscard, caller, command, tx, cmdLocals, reads>>
      /\ UNCHANGED <<buildVars, reset_signal, _topics, opVars>>
      /\ UNCHANGED pureVars

\* One attempt: write the probe, read one line, compare.  An exception of the
\* write or of the read is caught and ends the attempt.
SelfTestAttempt ==
  /\ pc = "selftest"
  /\ \/ SelfTestStep("write_raised", <<"write">>)
     \/ SelfTestStep("read_raised", <<"write", "read">>)
     \/ \E w \in ProbeWire : \E sched \in Schedules(w) :
          \E kind \in {AttemptKind(_readline(sched))} :
            SelfTestStep(kind, <<"write", "read">>)

\* The caller runs self_test again.
SelfTestCall ==
  /\ pc = "idle"
  /\ pc' = "selftest"
  /\ caller' = "user"
  /\ UNCHANGED <<hasDiscard, ready, attempts, command, tx, cmdLocals, outcome, result,
                 reads, trace>>
  /\ UNCHANGED <<buildVars, reset_signal, _topics, opVars>>
  /\ UNCHANGED pureVars

(***************************************************************************)
(* The callers of cmd: the commands they send and the lines the module may  *)
(* answer them with.                                                       *)
(***************************************************************************)

\* "CONNECT?"
CONNECT_Q == <<"C", "O", "N", "N", "E", "C", "T", "?">>

\* The status line "OK {a} {b} foo bar".
ConnectLine(a, b) == OK \o <<SP, a, SP, b, SP, "f", "o", "o", SP, "b", "a", "r">>

\* Answers to CONNECT?: the four status lines, a line with one field only, a
\* bare OK and an error.
ConnectWire ==
  { Encode(ConnectLine(a, b)) \o t : a \in {"0", "1"}, b \in {"0", "1"}, t \in Terminators }
  \cup
  { Encode(body) \o <<CR, LF>> :
      body \in { OK \o <<SP, "1">>, OK, ERR \o <<"3", SP, "1", SP, "1">> } }

\* f"CONF? {query}"
ConfGetCmd(query) == <<"C", "O", "N", "F", "?", SP>> \o query

\* A write that separates the key from the value by a space.
ConfSetCmd_Space(key, value) == <<"C", "O", "N", "F", SP>> \o key \o <<SP>> \o value

\* f"CONF {key}={value}"
ConfSetCmd(key, value) == <<"C", "O", "N", "F", SP>> \o key \o <<"=">> \o value

\* Keys of the configuration dictionary, and values written to them.
ConfigKeys == { <<"E", "n", "d", "p", "o", "i", "n", "t">>, <<"S", "S", "I", "D">> }
ConfigValues == { <<"f", "o", "o", "b", "a", "r", ".", "e", "x", "a", "m", "p", "l", "e", ".", "c", "o", "m">>, <<"v", LF>> }

\* Answers to CONF? and CONF: a value, no value, errors with and without a
\* code, and a line that is no status line.
ConfWire ==
  { Encode(OK \o <<SP>> \o <<"f", "o", "o", "b", "a", "r", ".", "e", "x", "a", "m", "p", "l", "e", ".", "c", "o", "m">>) \o t : t \in Terminators }
  \cup
  { Encode(body) \o <<CR, LF>> :
      body \in { OK, ERR \o <<"5", SP, "x">>, ERR, <<"x">> } }

\* Topic indexes and names the program uses.
TopicIndexes == {1}
TopicNames == { <<"t">>, <<SP, "t", SP>> }

\* f"Topic{topic_index}"
TopicKey(i) == <<"T", "o", "p", "i", "c">> \o Str(i)

\* Answers to CONF? Topic{i} and CONF Topic{i}={name}.
TopicWire ==
  { Encode(body) \o <<CR, LF>> : body \in { OK \o <<SP, "t">>, ERR \o <<"5", SP, "x">> } }

\* "EVENT?"
EVENT_Q == <<"E", "V", "E", "N", "T", "?">>

\* Answers to EVENT?: no event, events without and with a detail, an event
\* followed by more text, payloads that are no event, and an error.
EventWire ==
  { Encode(body) \o <<CR, LF>> :
      body \in { OK,
                 OK \o <<SP, "1", "2", SP, "3", SP, "M">>,
                 OK \o <<SP, "1", SP, "2", SP, "M", SP, "d">>,
                 OK \o <<SP, "1", SP, "2", SP, "M", SP, "d", SP, "e">>,
                 OK \o <<SP, "1", SP, "2">>,
                 OK \o <<SP, "x">>,
                 ERR \o <<"3", SP, "x">> } }

\* f"GET{topic_index}"
GetCmd(index) == <<"G", "E", "T">> \o index

\* Answers to GET: nothing pending, a message, a topic with one more line to
\* come, and errors.
GetWire ==
  { Encode(body) \o <<CR, LF>> :
      body \in { OK, OK \o <<SP, "x">>, OK \o <<"1", SP, "t">>,
                 ERR \o <<"5", SP, "x">>, ERR } }

\* The lines the module may answer the running caller's command with.
ResponsesTo(o) ==
  CASE o \in {"connected", "onboarded"} -> ConnectWire
    [] o \in {"config_get", "config_set"} -> ConfWire
    [] o \in {"get_topic", "set_topic"} -> TopicWire
    [] o = "get_event" -> EventWire
    [] o = "get_message" -> GetWire
    [] OTHER -> StatusWire

\* The callers of cmd: "none" is the program calling cmd itself.
Callers == {"none", "connected", "onboarded", "config_get", "config_set", "get_topic",
            "set_topic", "get_event", "get_message"}

\* What _readline returns for the lines of ws, over every line and every way
\* the transport delivers it.
ReadsOf(ws) == UNION { { _readline(sched) : sched \in Schedules(w) } : w \in ws }

\* What the first _readline of cmd may return, by caller.
StatusReads == [o \in Callers |-> ReadsOf(ResponsesTo(o))]

\* What a _readline of the loop over the additional lines may return.
ContReads == ReadsOf(ContWire)

(***************************************************************************)
(* cmd.                                                                    *)
(***************************************************************************)

Commands == Texts({BS, CR, LF, "x", "e_acute"}, MaxCmdLen) \ { <<>> }

\* f"AT+{command}\r\n".encode() with command = _escape(command)
Frame(c) == Encode(<<"A", "T", "+">> \o _escape(c) \o <<CR, LF>>)

\* The call ends by an exception of the given type: "OSError" stands for
\* whatever the transport's write or readline raises.
Raise(exc) ==
  /\ pc' = "done"
  /\ outcome' = exc
  /\ result' = <<>>

\* The call returns v.
Return(v) ==
  /\ pc' = "done"
  /\ outcome' = "returned"
  /\ result' = v

\* cmd up to its write: discard the unread input where the transport can, then
\* write the frame.
CmdStart(c) ==
  /\ pc = "idle"
  /\ command' = c
  /\ \/ /\ trace' = (IF hasDiscard THEN <<"discard">> ELSE <<>>) \o <<"write">>
        /\ tx' = Frame(c)
        /\ pc' = "cmd_sent"
        /\ UNCHANGED <<outcome, result>>
     \/ /\ trace' = (IF hasDiscard THEN <<"discard">> ELSE <<>>) \o <<"write">>
        /\ tx' = tx
        /\ Raise("OSError")
  /\ UNCHANGED <<hasDiscard, ready, caller, attempts, cmdLocals, reads>>
  /\ UNCHANGED <<buildVars, reset_signal>>
  /\ UNCHANGED pureVars

\* The program calls cmd itself.
CmdCall(c) ==
  /\ CmdStart(c)
  /\ UNCHANGED <<_topics, opVars>>

\* The module takes the frame off the wire.  cmd does not use its argument
\* after the write; the argument is kept for a caller of cmd, which fixed it.
ModuleTakesFrame ==
  /\ pc = "cmd_sent"
  /\ tx' = <<>>
  /\ command' = IF op = "none" THEN <<>> ELSE command
  /\ pc' = "cmd_status"
  /\ UNCHANGED <<hasDiscard, ready, caller, attempts, cmdLocals, outcome, result, reads, trace>>
  /\ UNCHANGED <<buildVars, reset_signal, _topics, opVars>>
  /\ UNCHANGED pureVars

\* A success branch that forgets to consume the OK prefix.
ParseOK_KeepsPrefix(line) ==
  [kind |-> "parsed", success |-> TRUE, error_code |-> None,
   additional_lines |-> 0, l |-> line]

\* A success branch that takes the count for one more than the line says.
ParseOK_OneMore(line) ==
  LET l1 == DropFirst(line, 2)
      r == Find(l1, SP)
  IN  IF r > 0 /\ IntParses(TakeFirst(l1, r))
      THEN [kind |-> "parsed", success |-> TRUE, error_code |-> None,
            additional_lines |-> IntVal(TakeFirst(l1, r)) + 1, l |-> DropFirst(l1, r)]
      ELSE [kind |-> "parsed", success |-> TRUE, error_code |-> None,
            additional_lines |-> 0, l |-> l1]

\* cmd's branch for a line that starts with "OK".  kind is "parsed", or
\* "raised" when int() raised ValueError.
ParseOK(line) ==
  LET l1 == DropFirst(line, 2)
      r == Find(l1, SP)
  IN  IF r > 0
      THEN IF IntParses(TakeFirst(l1, r))
           THEN [kind |-> "parsed", success |-> TRUE, error_code |-> None,
                 additional_lines |-> IntVal(TakeFirst(l1, r)), l |-> DropFirst(l1, r)]
           ELSE [kind |-> "raised", success |-> TRUE, error_code |-> None,
                 additional_lines |-> 0, l |-> l1]
      ELSE [kind |-> "parsed", success |-> TRUE, error_code |-> None,
            additional_lines |-> 0, l |-> l1]

\* An error branch that reports every error with the reserved code.
ParseERR_AlwaysTwo(line) ==
  [kind |-> "early", success |-> FALSE, error_code |-> Some(2),
   additional_lines |-> 0, l |-> DropFirst(line, 3)]

\* cmd's branch for a line that starts with "ERR".  kind is "parsed", "early"
\* (the return inside the branch) or "raised" (int() raised ValueError).
ParseERR(line) ==
  LET l1 == DropFirst(line, 3)
      r == Find(l1, SP)
  IN  IF r > 0
      THEN IF IntParses(TakeFirst(l1, r))
           THEN [kind |-> "parsed", success |-> FALSE,
                 error_code |-> Some(IntVal(TakeFirst(l1, r))),
                 additional_lines |-> 0, l |-> DropFirst(l1, r)]
           ELSE [kind |-> "raised", success |-> FALSE, error_code |-> None,
                 additional_lines |-> 0, l |-> l1]
      ELSE [kind |-> "early", success |-> FALSE, error_code |-> Some(2),
            additional_lines |-> 0, l |-> l1]

\* An unexpected-response branch that hands back the line trimmed.
ParseOther_Trimmed(line) ==
  [kind |-> "early", success |-> FALSE, error_code |-> Some(2),
   additional_lines |-> 0, l |-> Strip(line)]

\* cmd's branch for any other line: the return inside the branch.
ParseOther(line) ==
  [kind |-> "early", success |-> FALSE, error_code |-> Some(2),
   additional_lines |-> 0, l |-> line]

\* cmd's parse of the status line.
ParseStatus(line) ==
  IF StartsWith(line, OK) THEN ParseOK(line)
  ELSE IF StartsWith(line, ERR) THEN ParseERR(line)
  ELSE ParseOther(line)

\* return success, l.strip(), error_code
CmdResult(s, text, e) == <<s, Strip(text), e>>

\* A join that leaves out the newline.
JoinLine_NoNewline(text, al) == text \o al

\* l += "\n" + al
JoinLine(text, al) == text \o <<LF>> \o al

\* What is kept of one _readline call.
ReadRecord(rl) ==
  [raw |-> rl.raw, line |-> rl.line, timeout |-> rl.timeout, polls |-> rl.polls,
   raised |-> rl.raised]

\* cmd from its first _readline to the loop over the additional lines.
CmdReadStatus ==
  /\ pc = "cmd_status"
  /\ trace' = Append(trace, "read")
  /\ \/ /\ Raise("OSError")
        /\ UNCHANGED <<cmdLocals, reads>>
     \/ \E rl \in StatusReads[op] : \E p \in {ParseStatus(rl.line)} :
              /\ reads' = <<ReadRecord(rl)>>
              /\ IF rl.raised
                 THEN Raise("UnicodeDecodeError") /\ UNCHANGED cmdLocals
                 ELSE IF p.kind = "raised"
                 THEN Raise("ValueError") /\ UNCHANGED cmdLocals
                 ELSE /\ l' = p.l
                      /\ additional_lines' = p.additional_lines
                      /\ success' = p.success
                      /\ error_code' = p.error_code
                      /\ IF p.kind = "early"
                         THEN Return(<<FALSE, p.l, p.error_code>>)
                         ELSE IF p.additional_lines > 0
                         THEN pc' = "cmd_more" /\ UNCHANGED <<outcome, result>>
                         ELSE Return(CmdResult(p.success, p.l, p.error_code))
  /\ UNCHANGED <<hasDiscard, ready, caller, attempts, command, tx>>
  /\ UNCHANGED <<buildVars, reset_signal, _topics, opVars>>
  /\ UNCHANGED pureVars

\* A loop over the additional lines that does not stop at an empty line.
CmdReadMore_NoEarlyStop ==
  /\ pc = "cmd_more"
  /\ trace' = Append(trace, "read")
  /\ \E rl \in ContReads : \E al \in {rl.line} :
           /\ reads' = Append(reads, ReadRecord(rl))
           /\ IF rl.raised
              THEN Raise("UnicodeDecodeError") /\ l' = l
              ELSE /\ l' = JoinLine(l, al)
                   /\ IF Len(reads) >= additional_lines
                      THEN Return(CmdResult(success, JoinLine(l, al), error_code))
                      ELSE pc' = "cmd_more" /\ UNCHANGED <<outcome, result>>
  /\ UNCHANGED <<hasDiscard, ready, caller, attempts, command, tx, additional_lines,
                 success, error_code>>
  /\ UNCHANGED <<buildVars, reset_signal, _topics, opVars>>
  /\ UNCHANGED pureVars

\* One pass of the loop over the additional lines, and the return after it.
CmdReadMore ==
  /\ pc = "cmd_more"
  /\ trace' = Append(trace, "read")
  /\ \/ /\ Raise("OSError")
        /\ UNCHANGED <<l, reads>>
     \/ \E rl \in ContReads : \E al \in {rl.line} :
              /\ reads' = Append(reads, ReadRecord(rl))
              /\ IF rl.raised
                 THEN Raise("UnicodeDecodeError") /\ l' = l
                 ELSE IF al = <<>>
                 THEN l' = l /\ Return(CmdResult(success, l, error_code))
                 ELSE /\ l' = JoinLine(l, al)
                      /\ IF Len(reads) >= additional_lines
                         THEN Return(CmdResult(success, JoinLine(l, al), error_code))
                         ELSE pc' = "cmd_more" /\ UNCHANGED <<outcome, result>>
  /\ UNCHANGED <<hasDiscard, ready, caller, attempts, command, tx, additional_lines,
                 success, error_code>>
  /\ UNCHANGED <<buildVars, reset_signal, _topics, opVars>>
  /\ UNCHANGED pureVars

\* The caller takes the call's outcome; what was recorded of the call is
\* dropped.
Resume ==
  /\ pc = "done"
  /\ op = "none" \/ op_outcome # "none"
  /\ op' = "none"
  /\ op_arg' = <<>>
  /\ op_outcome' = "none"
  /\ op_result' = <<>>
  /\ topics_before' = <<>>
  /\ pc' = "idle"
  /\ attempts' = <<>>
  /\ l' = <<>>
  /\ additional_lines' = 0
  /\ success' = FALSE
  /\ error_code' = None
  /\ outcome' = "none"
  /\ result' = <<>>
  /\ reads' = <<>>
  /\ trace' = <<>>
  /\ caller' = "none"
  /\ command' = <<>>
  /\ UNCHANGED <<hasDiscard, ready, tx>>
  /\ UNCHANGED <<buildVars, reset_signal, _topics>>
  /\ UNCHANGED pureVars

(***************************************************************************)
(* The callers of cmd.  Each calls cmd once and then works on what cmd      *)
(* returned; an exception of cmd passes through them.                      *)
(***************************************************************************)

\* The caller o calls cmd with the command c.
OpCall(o, arg, c) ==
  /\ CmdStart(c)
  /\ op' = o
  /\ op_arg' = arg
  /\ topics_before' = _topics
  /\ UNCHANGED <<op_outcome, op_result, _topics>>

\* The caller ends: it returns res, or raises exc with the message res.
OpEnds(out, res) ==
  /\ op_outcome' = out
  /\ op_result' = res
  /\ UNCHANGED <<pc, hasDiscard, ready, caller, attempts, command, tx, cmdLocals, outcome,
                 result, reads, trace, op, op_arg, topics_before>>
  /\ UNCHANGED <<buildVars, reset_signal>>
  /\ UNCHANGED pureVars

\* cmd has ended inside the caller o, which has not yet ended.
CmdEndedIn(o) == pc = "done" /\ op = o /\ op_outcome = "none"

\* A connected that takes a first field of 0 for connected.
IsConnected_ZeroFirst(line) == Split(line, SP)[1] = <<"0">>

\* connected: r = line.split(" "); r[0] == "1"
IsConnected(line) == Split(line, SP)[1] = <<"1">>

\* An onboarded that looks at the first field.
IsOnboarded_FirstField(line) == Split(line, SP)[1] = <<"1">>

\* onboarded: r = line.split(" "); r[1] == "1"
IsOnboarded(line) == Split(line, SP)[2] = <<"1">>

\* The property connected, up to the return of its cmd.
ConnectedCall == OpCall("connected", <<>>, CONNECT_Q)

\* connected after cmd: the success flag and the error code are not looked at.
ConnectedReturn ==
  /\ CmdEndedIn("connected")
  /\ IF outcome # "returned" THEN OpEnds(outcome, <<>>)
     ELSE OpEnds("returned", <<IsConnected(result[2])>>)
  /\ UNCHANGED _topics

\* The property onboarded, up to the return of its cmd.
OnboardedCall == OpCall("onboarded", <<>>, CONNECT_Q)

\* onboarded after cmd: r[1] raises IndexError when the line has one field.
OnboardedReturn ==
  /\ CmdEndedIn("onboarded")
  /\ IF outcome # "returned" THEN OpEnds(outcome, <<>>)
     ELSE IF Len(Split(result[2], SP)) < 2 THEN OpEnds("IndexError", <<>>)
     ELSE OpEnds("returned", <<IsOnboarded(result[2])>>)
  /\ UNCHANGED _topics

\* The message of _extract_value's RuntimeError.
ExtractFailure(query, e, line) ==
  <<"f", "a", "i", "l", "e", "d", SP, "t", "o", SP, "g", "e", "t", SP, "c", "o", "n", "f", "i", "g", SP>> \o query \o <<":", SP, "E", "R", "R">>
    \o (IF e = None THEN <<"N", "o", "n", "e">> ELSE Str(e[1])) \o <<SP>> \o line

\* The message of _set_value's RuntimeError.
SetFailure(key, value, e, line) ==
  <<"f", "a", "i", "l", "e", "d", SP, "t", "o", SP, "s", "e", "t", SP, "c", "o", "n", "f", "i", "g", SP>> \o key \o <<"=">> \o value \o <<":", SP, "E", "R", "R">>
    \o (IF e = None THEN <<"N", "o", "n", "e">> ELSE Str(e[1])) \o <<SP>> \o line

\* _extract_value after cmd: the line on success, RuntimeError otherwise.
_extract_value(query) ==
  IF outcome # "returned" THEN OpEnds(outcome, <<>>)
  ELSE IF result[1] THEN OpEnds("returned", result[2])
  ELSE OpEnds("RuntimeError", ExtractFailure(query, result[3], result[2]))

\* _set_value after cmd: the line on success, RuntimeError otherwise.
_set_value(key, value) ==
  IF outcome # "returned" THEN OpEnds(outcome, <<>>)
  ELSE IF result[1] THEN OpEnds("returned", result[2])
  ELSE OpEnds("RuntimeError", SetFailure(key, value, result[3], result[2]))

\* A getter of the configuration dictionary, up to the return of its cmd.
ConfigGetCall(key) == OpCall("config_get", <<key>>, ConfGetCmd(key))

\* The getter after cmd.
ConfigGetReturn ==
  /\ CmdEndedIn("config_get")
  /\ _extract_value(op_arg[1])
  /\ UNCHANGED _topics

\* A setter of the configuration dictionary, up to the return of its cmd.
ConfigSetCall(key, value) == OpCall("config_set", <<key, value>>, ConfSetCmd(key, value))

\* The setter after cmd.
ConfigSetReturn ==
  /\ CmdEndedIn("config_set")
  /\ _set_value(op_arg[1], op_arg[2])
  /\ UNCHANGED _topics

\* A Passphrase getter that asks the module.
PassphraseGet_AsksModule == OpCall("Passphrase", <<>>, ConfGetCmd(<<"P", "a", "s", "s", "p", "h", "r", "a", "s", "e">>))

\* The getter of Passphrase: raise RuntimeError("write-only persistent key").
PassphraseGet ==
  /\ pc = "idle"
  /\ pc' = "done"
  /\ op' = "Passphrase"
  /\ op_outcome' = "RuntimeError"
  /\ op_result' = <<"write-only persistent key">>
  /\ topics_before' = _topics
  /\ UNCHANGED <<hasDiscard, ready, caller, attempts, command, tx, cmdLocals, outcome, result,
                 reads, trace, op_arg, _topics>>
  /\ UNCHANGED <<buildVars, reset_signal>>
  /\ UNCHANGED pureVars

\* Config._topics after self._topics[index] = name.
TopicsWith(index, name) ==
  [i \in (DOMAIN _topics) \cup {index} |-> IF i = index THEN name ELSE _topics[i]]

\* get_topic, up to the return of its cmd.
GetTopicCall(index) == OpCall("get_topic", <<index>>, ConfGetCmd(TopicKey(index)))

\* get_topic after cmd: the name is cached when _extract_value returned it.
GetTopicReturn ==
  /\ CmdEndedIn("get_topic")
  /\ _extract_value(TopicKey(op_arg[1]))
  /\ _topics' = IF outcome = "returned" /\ result[1]
                THEN TopicsWith(op_arg[1], result[2])
                ELSE _topics

\* set_topic, up to the return of its cmd: the name is stripped and cached
\* before the command is sent.
SetTopicCall(index, name) ==
  /\ CmdStart(ConfSetCmd(TopicKey(index), Strip(name)))
  /\ op' = "set_topic"
  /\ op_arg' = <<index, Strip(name)>>
  /\ topics_before' = _topics
  /\ _topics' = TopicsWith(index, Strip(name))
  /\ UNCHANGED <<op_outcome, op_result>>

\* set_topic after cmd.
SetTopicReturn ==
  /\ CmdEndedIn("set_topic")
  /\ _set_value(TopicKey(op_arg[1]), op_arg[2])
  /\ UNCHANGED _topics

\* A pin test that takes the low level for the high one.
_is_pin_high_Inverted(wired, level) == wired /\ level = "low"

\* _is_pin_high(pin): False without a pin, otherwise whether the pin reads
\* high (pin.value == True on CircuitPython, pin.value() on MicroPython).
_is_pin_high(wired, level) == wired /\ level = "high"

\* return None, None, None, None
NoEvent == <<None, None, None, None>>

\* re.match(r"(\d+) (\d+) (\S+)( \S+)?", line): a match at the start of the
\* line, each run as long as it can be; the fourth group is None when absent
\* and keeps its leading space when present.
EventMatch(line) ==
  LET no == [matched |-> FALSE, event_id |-> <<>>, parameter |-> <<>>,
             mnemonic |-> <<>>, detail |-> None]
      n1 == Run(line, Digits)
      r1 == DropFirst(line, n1)
  IN  IF n1 = 0 \/ r1 = <<>> \/ Head(r1) # SP THEN no
      ELSE LET r2 == Tail(r1)
               n2 == Run(r2, Digits)
               r3 == DropFirst(r2, n2)
           IN  IF n2 = 0 \/ r3 = <<>> \/ Head(r3) # SP THEN no
               ELSE LET r4 == Tail(r3)
                        n3 == RunOutside(r4, Whitespace)
                        r5 == DropFirst(r4, n3)
                        n4 == IF r5 # <<>> /\ Head(r5) = SP
                              THEN RunOutside(Tail(r5), Whitespace) ELSE 0
                    IN  IF n3 = 0 THEN no
                        ELSE [matched |-> TRUE,
                              event_id |-> TakeFirst(line, n1),
                              parameter |-> TakeFirst(r2, n2),
                              mnemonic |-> TakeFirst(r4, n3),
                              detail |-> IF n4 > 0 THEN TakeFirst(r5, n4 + 1) ELSE None]

\* get_event up to the return of its cmd.  With an event pin that does not
\* read high it returns at once; level is what the pin reads.
GetEventCall ==
  /\ pc = "idle"
  /\ \E level \in {"low", "high"} :
       IF event_pin /\ ~_is_pin_high(event_pin, level)
       THEN /\ pc' = "done"
            /\ op' = "get_event"
            /\ op_arg' = <<level>>
            /\ op_outcome' = "returned"
            /\ op_result' = NoEvent
            /\ topics_before' = _topics
            /\ UNCHANGED <<hasDiscard, ready, caller, attempts, command, tx, cmdLocals,
                           outcome, result, reads, trace, _topics>>
            /\ UNCHANGED <<buildVars, reset_signal>>
            /\ UNCHANGED pureVars
       ELSE OpCall("get_event", IF event_pin THEN <<level>> ELSE <<>>, EVENT_Q)

\* get_event after cmd: no event on an empty or unsuccessful response,
\* otherwise the groups of the match; .groups() of no match raises
\* AttributeError.  (The debouncer's update() calls change nothing here: what
\* the pin reads is given anew at every call.)
GetEventReturn ==
  /\ CmdEndedIn("get_event")
  /\ IF outcome # "returned" THEN OpEnds(outcome, <<>>)
     ELSE IF (result[1] /\ result[2] = <<>>) \/ ~result[1]
     THEN OpEnds("returned", NoEvent)
     ELSE LET m == EventMatch(result[2])
          IN  IF m.matched
              THEN OpEnds("returned", <<Some(IntVal(m.event_id)), Some(IntVal(m.parameter)),
                                        m.mnemonic, m.detail>>)
              ELSE OpEnds("AttributeError", <<>>)
  /\ UNCHANGED _topics

\* The calls of get_message: topic_index (None, 0 or 1) and topic_name.
GetMessageArgs ==
  { <<None, None>>, <<Some(0), None>>, <<Some(1), None>>, <<None, <<"t">>>> }

\* get_message returns a flag and a code, (False, error_code) or (True, None).
FlagResult(flag, code) ==
  [kind |-> "flag", flag |-> flag, code |-> code, topic_name |-> <<>>, message |-> <<>>]

\* get_message returns (topic_name, message).
MessageResult(name, message) ==
  [kind |-> "message", flag |-> TRUE, code |-> None, topic_name |-> name, message |-> message]

\* get_message ends before it calls cmd.
GetMessageRaises(arg, exc) ==
  /\ pc' = "done"
  /\ op' = "get_message"
  /\ op_arg' = arg
  /\ op_outcome' = exc
  /\ op_result' = <<>>
  /\ topics_before' = _topics
  /\ UNCHANGED <<hasDiscard, ready, caller, attempts, command, tx, cmdLocals,
                 outcome, result, reads, trace, _topics>>
  /\ UNCHANGED <<buildVars, reset_signal>>
  /\ UNCHANGED pureVars

\* get_message up to the return of its cmd.  A topic name without an index
\* is looked up by topics.values().index(...), which a dict view does not
\* have (AttributeError); an index above 0 is looked up in the cache
\* (KeyError when it is not there).
GetMessageCall(topic_index, topic_name) ==
  /\ pc = "idle"
  /\ LET arg == <<topic_index, topic_name>>
     IN  IF topic_name # None /\ (topic_index = None \/ topic_index = Some(0))
         THEN GetMessageRaises(arg, "AttributeError")
         ELSE IF topic_index # None /\ topic_index[1] > 0
         THEN IF topic_index[1] \in DOMAIN _topics
              THEN OpCall("get_message", arg, GetCmd(Str(topic_index[1])))
              ELSE GetMessageRaises(arg, "KeyError")
         ELSE IF topic_index = None
         THEN OpCall("get_message", arg, GetCmd(<<>>))
         ELSE OpCall("get_message", arg, GetCmd(Str(topic_index[1])))

\* get_message after cmd.  Without an index, or with index 0: a successful
\* non-empty line is split at its first line feed into topic and message
\* (ValueError when it has none), anything else gives (True, None).  With an
\* index: (topic_name, line) on success, (False, error_code) otherwise.
GetMessageReturn ==
  /\ CmdEndedIn("get_message")
  /\ IF outcome # "returned" THEN OpEnds(outcome, <<>>)
     ELSE IF op_arg[1] = None \/ op_arg[1] = Some(0)
     THEN IF result[1] /\ result[2] # <<>>
          THEN LET k == Find(result[2], LF)
               IN  IF k < 0 THEN OpEnds("ValueError", <<>>)
                   ELSE OpEnds("returned", MessageResult(TakeFirst(result[2], k),
                                                         DropFirst(result[2], k + 1)))
          ELSE OpEnds("returned", FlagResult(TRUE, None))
     ELSE IF result[1]
          THEN OpEnds("returned", MessageResult(_topics[op_arg[1][1]], result[2]))
          ELSE OpEnds("returned", FlagResult(FALSE, result[3]))
  /\ UNCHANGED _topics

\* The builds: pySerial on a PC (no pins), CircuitPython and MicroPython with
\* the reset and event pins wired.  reset_input_buffer is "only available on
\* CircuitPython and pySerial".
Builds ==
  { [platform |-> "other", hasDiscard |-> TRUE, pins |-> FALSE],
    [platform |-> "circuitpython", hasDiscard |-> TRUE, pins |-> TRUE],
    [platform |-> "micropython", hasDiscard |-> FALSE, pins |-> TRUE] }

Init ==
  /\ HostStart
  /\ \E b \in Builds :
       /\ platform = b.platform
       /\ hasDiscard = b.hasDiscard
       /\ reset_pin = b.pins
       /\ event_pin = b.pins
  /\ codec_pc = "off"
  /\ codec_s = <<>>
  /\ codec_e = <<>>
  /\ codec_u = <<>>
  /\ ReaderOff

Next ==
  \/ Construct
  \/ SelfTestAttempt
  \/ SelfTestCall
  \/ \E c \in Commands : CmdCall(c)
  \/ ModuleTakesFrame
  \/ CmdReadStatus
  \/ CmdReadMore
  \/ ConnectedCall
  \/ ConnectedReturn
  \/ OnboardedCall
  \/ OnboardedReturn
  \/ \E key \in ConfigKeys : ConfigGetCall(key)
  \/ ConfigGetReturn
  \/ \E key \in ConfigKeys, value \in ConfigValues : ConfigSetCall(key, value)
  \/ ConfigSetReturn
  \/ PassphraseGet
  \/ \E index \in TopicIndexes : GetTopicCall(index)
  \/ GetTopicReturn
  \/ \E index \in TopicIndexes, name \in TopicNames : SetTopicCall(index, name)
  \/ SetTopicReturn
  \/ GetEventCall
  \/ GetEventReturn
  \/ \E arg \in GetMessageArgs : GetMessageCall(arg[1], arg[2])
  \/ GetMessageReturn
  \/ Resume

Spec == Init /\ [][Next]_vars

(***************************************************************************)
(* cmd on a constructed channel, with the program going on: the call       *)
(* proceeds from its write to its reads and each read returns.             *)
(***************************************************************************)

\* After a construction whose self-test succeeded: the program is about to
\* call cmd.
InitIdle ==
  /\ pc = "idle"
  /\ ready = "true"
  /\ caller = "none"
  /\ attempts = <<>>
  /\ command = <<>>
  /\ tx = <<>>
  /\ l = <<>>
  /\ additional_lines = 0
  /\ success = FALSE
  /\ error_code = None
  /\ outcome = "none"
  /\ result = <<>>
  /\ reads = <<>>
  /\ trace = <<>>
  /\ platform = "other"
  /\ hasDiscard = TRUE
  /\ reset_pin = FALSE
  /\ event_pin = FALSE
  /\ reset_signal = "unset"
  /\ _topics = <<>>
  /\ op = "none"
  /\ op_arg = <<>>
  /\ op_outcome = "none"
  /\ op_result = <<>>
  /\ topics_before = <<>>
  /\ codec_pc = "off"
  /\ codec_s = <<>>
  /\ codec_e = <<>>
  /\ codec_u = <<>>
  /\ ReaderOff

NextCmd ==
  \/ \E c \in Commands : CmdCall(c)
  \/ ModuleTakesFrame
  \/ CmdReadStatus
  \/ CmdReadMore
  \/ Resume

\* Every poll returns, so after its write cmd goes on to read, and a read that
\* has started ends.
SpecCmdLive ==
  /\ InitIdle
  /\ [][NextCmd]_vars
  /\ WF_vars(ModuleTakesFrame)
  /\ WF_vars(CmdReadStatus)
  /\ WF_vars(CmdReadMore)

(***************************************************************************)
(* The codec as a pure function: every text of the bounded set is escaped  *)
(* and then unescaped.                                                     *)
(***************************************************************************)
CodecAlphabet == {BS, CR, LF, "A", "D", "x"}

InitCodec ==
  /\ HostStart
  /\ hasDiscard = TRUE
  /\ platform = "other"
  /\ reset_pin = FALSE
  /\ event_pin = FALSE
  /\ codec_pc = "start"
  /\ codec_s \in Texts(CodecAlphabet, MaxCodecLen)
  /\ codec_e = <<>>
  /\ codec_u = <<>>
  /\ ReaderOff

CodecEscape ==
  /\ codec_pc = "start"
  /\ codec_e' = _escape(codec_s)
  /\ codec_pc' = "escaped"
  /\ UNCHANGED <<codec_s, codec_u>>
  /\ UNCHANGED readerVars
  /\ UNCHANGED hostVars

CodecUnescape ==
  /\ codec_pc = "escaped"
  /\ codec_u' = _unescape(codec_e)
  /\ codec_pc' = "done"
  /\ UNCHANGED <<codec_s, codec_e>>
  /\ UNCHANGED readerVars
  /\ UNCHANGED hostVars

NextCodec == CodecEscape \/ CodecUnescape

SpecCodec == InitCodec /\ [][NextCodec]_vars

(***************************************************************************)
(* The line reader as a pure function of what the polls return: every line *)
(* of the bounded set, delivered whole or in two or three chunks, at the   *)
(* first polls, at the last ones, or too late.                             *)
(***************************************************************************)
ReaderBytes == {"x", BS, "A", CR, NUL, "xC3", "xA9"}

\* The lines the module may send: bytes up to the first LF.
ReaderLines == { b \o <<LF>> : b \in Texts(ReaderBytes, MaxLineLen) }

\* The polls at which a chunk may arrive; the polls in between return nothing.
PollNumbers == {1, 2, counter, counter + 1}

\* The line w in one, two or three chunks, each at a later poll than the one
\* before.
Deliveries(w) ==
  { <<[at |-> t, chunk |-> w]>> : t \in PollNumbers }
  \cup
  { <<[at |-> t[1], chunk |-> TakeFirst(w, j)], [at |-> t[2], chunk |-> DropFirst(w, j)]>> :
      j \in 1..(Len(w) - 1),
      t \in { p \in PollNumbers \X PollNumbers : p[1] < p[2] } }
  \cup
  { <<[at |-> t[1], chunk |-> TakeFirst(w, c[1])],
      [at |-> t[2], chunk |-> TakeFirst(DropFirst(w, c[1]), c[2] - c[1])],
      [at |-> t[3], chunk |-> DropFirst(w, c[2])]>> :
      c \in { q \in (1..(Len(w) - 1)) \X (1..(Len(w) - 1)) : q[1] < q[2] },
      t \in { p \in PollNumbers \X PollNumbers \X PollNumbers : p[1] < p[2] /\ p[2] < p[3] } }

InitReader ==
  /\ HostStart
  /\ hasDiscard = TRUE
  /\ platform = "other"
  /\ reset_pin = FALSE
  /\ event_pin = FALSE
  /\ codec_pc = "off"
  /\ codec_s = <<>>
  /\ codec_e = <<>>
  /\ codec_u = <<>>
  /\ rl_pc = "start"
  /\ \E w \in ReaderLines : rl_sched \in Deliveries(w)
  /\ rl_out = <<>>

\* One call of _readline.
ReaderCall ==
  /\ rl_pc = "start"
  /\ rl_out' = _readline(rl_sched)
  /\ rl_pc' = "done"
  /\ UNCHANGED rl_sched
  /\ UNCHANGED codecVars
  /\ UNCHANGED hostVars

NextReader == ReaderCall

SpecReader == InitReader /\ [][NextReader]_vars

\* C1: escaping and then unescaping gives back the text, for every text over
\* backslash, CR, LF, 'A', 'D' and an ordinary character.
C1_RoundTrip == codec_pc = "done" => codec_u = codec_s

(***************************************************************************)
(* Properties.                                                             *)
(***************************************************************************)

\* A self_test call has returned.
SelfTestDone == pc = "done" /\ caller \in {"init", "user"}

\* A cmd call has ended, by a return or an exception.
CmdDone == pc = "done" /\ caller = "none"

\* A cmd call has returned a tuple.
CmdReturned == CmdDone /\ outcome = "returned"

\* The attempts of the self_test call that yielded the success token.
OkAttempts == { i \in 1..Len(attempts) : attempts[i] = "ok" }

\* C2: a self_test without a success token makes exactly 5 attempts and
\* returns False, and __init__ then sets ready to False; a self_test whose
\* first success token comes on attempt k makes exactly k attempts and returns
\* True, and __init__ then sets ready to True.
C2_SelfTestAttemptCount ==
  /\ pc = "selftest" => OkAttempts = {} /\ Len(attempts) < 5
  /\ SelfTestDone =>
       IF OkAttempts = {}
       THEN /\ Len(attempts) = 5
            /\ result = <<FALSE>>
            /\ caller = "init" => ready = "false"
       ELSE /\ OkAttempts = {Len(attempts)}
            /\ Len(attempts) \in 1..5
            /\ result = <<TRUE>>
            /\ caller = "init" => ready = "true"

\* C2 witness: construction whose third attempt is the first to succeed.
C2_Witness ==
  /\ SelfTestDone
  /\ caller = "init"
  /\ Len(attempts) = 3
  /\ attempts[3] = "ok"
  /\ ready = "true"

\* The decoded status line of the call, once its first _readline returned.
StatusRead == caller = "none" /\ reads # <<>> /\ ~reads[1].raised
StatusLine == reads[1].line

\* The text begins with a run of k >= 1 digits followed by a space.
DigitsThenSpace(text, k) ==
  /\ k >= 1
  /\ Len(text) > k
  /\ \A i \in 1..k : text[i] \in Digits
  /\ text[k + 1] = SP

HasLeadingNumber(text) == \E k \in 1..Len(text) : DigitsThenSpace(text, k)
NumberLen(text) == CHOOSE k \in 1..Len(text) : DigitsThenSpace(text, k)
LeadingNumber(text) == DecimalVal(TakeFirst(text, NumberLen(text)))
AfterNumber(text) == DropFirst(text, NumberLen(text) + 1)

\* The continuation lines read so far, joined behind first by single newlines.
RECURSIVE JoinedFrom(_, _)
JoinedFrom(first, i) ==
  IF i <= 1 THEN first ELSE JoinedFrom(first, i - 1) \o <<LF>> \o reads[i].line

\* The case of C3: the call returned, the status line was 'OK{N} {first}' with
\* N >= 1 and a non-empty first, and every continuation read gave a complete,
\* non-empty line.
C3_Case ==
  /\ CmdReturned
  /\ StatusRead
  /\ StartsWith(StatusLine, OK)
  /\ HasLeadingNumber(DropFirst(StatusLine, 2))
  /\ LeadingNumber(DropFirst(StatusLine, 2)) >= 1
  /\ AfterNumber(DropFirst(StatusLine, 2)) # <<>>
  /\ \A i \in 1..Len(reads) : ~reads[i].timeout
  /\ \A i \in 2..Len(reads) : reads[i].line # <<>>

\* C3 as claimed: the payload is first + LF + l1 + ... + LF + lN.
C3_PayloadIsJoin ==
  C3_Case =>
    LET rest == DropFirst(StatusLine, 2)
    IN  /\ Len(reads) = 1 + LeadingNumber(rest)
        /\ result = <<TRUE, JoinedFrom(AfterNumber(rest), Len(reads)), None>>

\* C3 amended: exactly N continuation lines are read and the payload is
\* first + LF + l1 + ... + LF + lN with the whitespace at its two ends dropped.
C3_PayloadIsTrimmedJoin ==
  C3_Case =>
    LET rest == DropFirst(StatusLine, 2)
    IN  /\ Len(reads) = 1 + LeadingNumber(rest)
        /\ result = <<TRUE, Strip(JoinedFrom(AfterNumber(rest), Len(reads))), None>>

\* C3 witness: 'OK2 x' and two further lines 'x' give 'x', LF, 'x', LF, 'x'.
C3_Witness ==
  /\ C3_Case
  /\ StatusLine = OK \o <<"2", SP, "x">>
  /\ Len(reads) = 3
  /\ result = <<TRUE, <<"x", LF, "x", LF, "x">>, None>>

\* The case of C4: the status line begins with 'ERR' and what follows does not
\* begin with a decimal code and a space.
C4_Case ==
  /\ CmdDone
  /\ StatusRead
  /\ StartsWith(StatusLine, ERR)
  /\ ~HasLeadingNumber(DropFirst(StatusLine, 3))

\* C4: a malformed error line makes cmd return a failure with code 2, and no
\* exception leaves cmd.
C4_MalformedErrReturnsTwo ==
  C4_Case => outcome = "returned" /\ result[1] = FALSE /\ result[3] = Some(2)

\* The case of C5: the first _readline of a cmd call ran out of polls, and the
\* transport itself raised nothing.
C5_Case ==
  /\ CmdDone
  /\ reads # <<>>
  /\ reads[1].timeout
  /\ outcome # "OSError"

\* C5: when the line reader times out, the cmd call returns a failure: it
\* neither raises nor reports success.
C5_TimeoutGivesFailure ==
  C5_Case => outcome = "returned" /\ result[1] = FALSE
\* escape, character by character: backslash to two backslashes, CR to
\* backslash D, LF to backslash A, anything else to itself.
RECURSIVE EscapeEach(_)
EscapeEach(text) ==
  IF text = <<>> THEN <<>>
  ELSE (CASE Head(text) = BS -> <<BS, BS>>
          [] Head(text) = CR -> <<BS, "D">>
          [] Head(text) = LF -> <<BS, "A">>
          [] OTHER -> <<Head(text)>>) \o EscapeEach(Tail(text))

WireLine == StripChars(Decode(reads[1].raw), ReadlineStrip)

\* What follows 'OK' on the wire, trimmed.
WirePayload == Strip(DropFirst(WireLine, 2))

\* The case of C7: the call ended after a complete status line that was, on
\* the wire, 'OK' and a payload without a count before it.
C7_Case ==
  /\ CmdDone
  /\ StatusRead
  /\ ~reads[1].timeout
  /\ StartsWith(WireLine, OK)
  /\ Find(DropFirst(WireLine, 2), SP) <= 0

\* C7 as claimed: the payload handed to the caller is the wire payload
\* unescaped.
C7_PayloadIsUnescaped ==
  C7_Case => outcome = "returned" /\ result = <<TRUE, _unescape(WirePayload), None>>

\* C7 amended: the payload handed to the caller is the wire payload unescaped
\* and then trimmed of the whitespace at its two ends.
C7_PayloadIsUnescapedTrimmed ==
  C7_Case => outcome = "returned" /\ result = <<TRUE, Strip(_unescape(WirePayload)), None>>

\* C7 witness: wire 'OK x\Ax\Dx\\x' gives x, LF, x, CR, x, backslash, x.
C7_Witness ==
  /\ C7_Case
  /\ reads[1].raw = OK \o <<SP, "x", BS, "A", "x", BS, "D", "x", BS, BS, "x", CR, LF>>
  /\ result = <<TRUE, <<"x", LF, "x", CR, "x", BS, "x">>, None>>

\* The case of C8: the status line arrived whole and was 'OK' and a
\* terminator.
C8_Case ==
  /\ caller = "none"
  /\ reads # <<>>
  /\ ~reads[1].timeout
  /\ reads[1].raw \in { OK \o <<LF>>, OK \o <<CR, LF>> }

\* C8: a bare 'OK' makes cmd return (True, '', None) after that one read.
C8_BareSuccess ==
  C8_Case =>
    /\ pc = "done"
    /\ outcome = "returned"
    /\ result = <<TRUE, <<>>, None>>
    /\ Len(reads) = 1
    /\ trace[Len(trace) - 1] = "write"

\* C8 witness: 'OK' CR LF was read and cmd returned (True, '', None).
C8_Witness ==
  /\ C8_Case
  /\ reads[1].raw = OK \o <<CR, LF>>
  /\ result = <<TRUE, <<>>, None>>

C10_Case ==
  /\ StatusRead
  /\ ~StartsWith(StatusLine, OK)
  /\ ~StartsWith(StatusLine, ERR)

\* C10: such a line makes cmd return (False, the line as read, 2) without
\* another read.
C10_UnexpectedResponse ==
  C10_Case =>
    /\ pc = "done"
    /\ outcome = "returned"
    /\ result = <<FALSE, StatusLine, Some(2)>>
    /\ Len(reads) = 1
    /\ trace[Len(trace)] = "read"
    /\ trace[Len(trace) - 1] = "write"

\* C10 witness: the line ' x' was returned as it was read, with code 2.
C10_Witness ==
  /\ C10_Case
  /\ StatusLine = <<SP, "x">>
  /\ result = <<FALSE, <<SP, "x">>, Some(2)>>

\* A caller of cmd has ended, by a return or an exception.
OpDone(o) == pc = "done" /\ op = o /\ op_outcome # "none"

\* The writes of the call so far.
Writes == { i \in 1..Len(trace) : trace[i] = "write" }

\* The reads of the call so far.
Reads == { i \in 1..Len(trace) : trace[i] = "read" }

\* The status line of the call arrived whole and was w followed by LF or CR LF.
StatusWas(w) ==
  /\ reads # <<>>
  /\ ~reads[1].timeout
  /\ \E t \in Terminators : reads[1].raw = Encode(w) \o t

\* C11 as claimed: the answer 'OK 1 0 foo bar' makes connected false, and the
\* answer 'OK 1 1 foo bar' makes connected and onboarded true.
C11_ConnectivityAsSpecified ==
  /\ OpDone("connected") /\ StatusWas(ConnectLine("1", "0"))
       => op_outcome = "returned" /\ op_result = <<FALSE>>
  /\ OpDone("connected") /\ StatusWas(ConnectLine("1", "1"))
       => op_outcome = "returned" /\ op_result = <<TRUE>>
  /\ OpDone("onboarded") /\ StatusWas(ConnectLine("1", "1"))
       => op_outcome = "returned" /\ op_result = <<TRUE>>

\* C11, amended: the answer 'OK 1 0 foo bar' makes connected true (its first
\* field is 1) and onboarded false; the answer 'OK 1 1 foo bar' makes connected
\* and onboarded true.
C11_ConnectivityFirstField ==
  /\ OpDone("connected") /\ StatusWas(ConnectLine("1", "0"))
       => op_outcome = "returned" /\ op_result = <<TRUE>>
  /\ OpDone("onboarded") /\ StatusWas(ConnectLine("1", "0"))
       => op_outcome = "returned" /\ op_result = <<FALSE>>
  /\ OpDone("connected") /\ StatusWas(ConnectLine("1", "1"))
       => op_outcome = "returned" /\ op_result = <<TRUE>>
  /\ OpDone("onboarded") /\ StatusWas(ConnectLine("1", "1"))
       => op_outcome = "returned" /\ op_result = <<TRUE>>

\* C11 witness: connected has returned on the answer 'OK 1 0 foo bar'.
C11_Witness ==
  /\ OpDone("connected")
  /\ StatusWas(ConnectLine("1", "0"))
  /\ op_outcome = "returned"

\* C12: on the answer 'OK {a} {b} foo bar' with a, b in {0, 1}, connected
\* returns True exactly when a is 1 and onboarded returns True exactly when b
\* is 1, and each has written exactly one command, CONNECT?.
C12_ConnectivityAsTested ==
  \A a \in {"0", "1"}, b \in {"0", "1"} :
    /\ OpDone("connected") /\ StatusWas(ConnectLine(a, b))
         => /\ op_outcome = "returned"
            /\ op_result = <<a = "1">>
            /\ command = CONNECT_Q
            /\ Cardinality(Writes) = 1
    /\ OpDone("onboarded") /\ StatusWas(ConnectLine(a, b))
         => /\ op_outcome = "returned"
            /\ op_result = <<b = "1">>
            /\ command = CONNECT_Q
            /\ Cardinality(Writes) = 1

\* C12 witness: onboarded has returned True on the answer 'OK 0 1 foo bar'.
C12_Witness ==
  /\ OpDone("onboarded")
  /\ StatusWas(ConnectLine("0", "1"))
  /\ op_result = <<TRUE>>

\* The text sub occurs in the text s.
Occurs(sub, s) ==
  \E i \in 0..(Len(s) - Len(sub)) : SubSeq(s, i + 1, i + Len(sub)) = sub

\* The text carries the key, the error code and the message of the failed
\* response that cmd returned.
CarriesFailure(text, key) ==
  /\ Occurs(key, text)
  /\ result[3] # None
  /\ Occurs(Str(result[3][1]), text)
  /\ Occurs(result[2], text)

\* C13: a read of key k has written exactly one command, 'CONF? k', and a
\* write exactly one command, 'CONF k=v'; when cmd returned success the read
\* returns exactly the payload ('OK foobar.example.com' gives
\* 'foobar.example.com'); when cmd returned failure both raise an error that
\* carries the key, the error code and the message, and return no value.
C13_ConfigGetSet ==
  /\ OpDone("config_get") =>
       /\ command = <<"C", "O", "N", "F", "?", SP>> \o op_arg[1]
       /\ Cardinality(Writes) = 1
       /\ outcome = "returned" /\ result[1] =>
            op_outcome = "returned" /\ op_result = result[2]
       /\ outcome = "returned" /\ ~result[1] =>
            op_outcome = "RuntimeError" /\ CarriesFailure(op_result, op_arg[1])
       /\ StatusWas(OK \o <<SP>> \o <<"f", "o", "o", "b", "a", "r", ".", "e", "x", "a", "m", "p", "l", "e", ".", "c", "o", "m">>) =>
            op_outcome = "returned" /\ op_result = <<"f", "o", "o", "b", "a", "r", ".", "e", "x", "a", "m", "p", "l", "e", ".", "c", "o", "m">>
  /\ OpDone("config_set") =>
       /\ command = <<"C", "O", "N", "F", SP>> \o op_arg[1] \o <<"=">> \o op_arg[2]
       /\ Cardinality(Writes) = 1
       /\ outcome = "returned" /\ result[1] => op_outcome = "returned"
       /\ outcome = "returned" /\ ~result[1] =>
            op_outcome = "RuntimeError" /\ CarriesFailure(op_result, op_arg[1])

\* C13 witness: a write of a key has failed on an ERR response with a code.
C13_Witness ==
  /\ OpDone("config_set")
  /\ op_outcome = "RuntimeError"
  /\ result = <<FALSE, <<"x">>, Some(5)>>

\* C14: a read of Passphrase ends at once by an error, and no transport
\* operation is part of it: nothing discarded, written or read, whatever the
\* channel's state.
C14_PassphraseWriteOnly ==
  op = "Passphrase" =>
    /\ pc = "done"
    /\ op_outcome = "RuntimeError"
    /\ trace = <<>>
    /\ reads = <<>>
    /\ tx = <<>>

\* C14 witness: Passphrase was read on a channel whose self-test failed.
C14_Witness ==
  /\ OpDone("Passphrase")
  /\ ready = "false"

\* Every line of the response arrived whole, within the polls of its read.
ArrivedWhole == \A i \in 1..Len(reads) : ~reads[i].timeout /\ ~reads[i].raised

\* C15: when the event pin is wired and does not read high, get_event
\* returns 'no event' (four times None) at once: no command is issued, nothing
\* is written to the transport and nothing is read from it.
C15_EventShortCircuit ==
  op = "get_event" /\ event_pin /\ op_arg = <<"low">> =>
    /\ pc = "done"
    /\ op_outcome = "returned"
    /\ op_result = <<None, None, None, None>>
    /\ trace = <<>>
    /\ reads = <<>>
    /\ tx = <<>>
    /\ command = <<>>

\* C15 witness: get_event has returned on a build with the event pin wired
\* while the pin read low.
C15_Witness ==
  /\ OpDone("get_event")
  /\ event_pin
  /\ op_arg = <<"low">>

\* The payload is '<event_id> <parameter> <mnemonic>' or
\* '<event_id> <parameter> <mnemonic> <detail>': numbers, then one or two
\* words, one space between them.
EventGrammar(line) ==
  LET f == Split(line, SP)
  IN  /\ Len(f) \in {3, 4}
      /\ \A i \in {1, 2} : f[i] # <<>> /\ \A j \in 1..Len(f[i]) : f[i][j] \in Digits
      /\ \A i \in 3..Len(f) : f[i] # <<>> /\ \A j \in 1..Len(f[i]) : f[i][j] \notin Whitespace

\* C16: once cmd has returned to get_event a response that arrived whole, an empty successful payload gives
\* 'no event'; a successful payload of the event grammar gives the event with
\* its identifier and parameter as integers; and a non-empty payload that is
\* not of the grammar makes get_event raise: it is returned neither as 'no
\* event' nor as an event.
C16_EventDecoding ==
  OpDone("get_event") /\ outcome = "returned" /\ ArrivedWhole =>
    /\ result[1] /\ result[2] = <<>> =>
         op_outcome = "returned" /\ op_result = <<None, None, None, None>>
    /\ result[1] /\ result[2] # <<>> /\ EventGrammar(result[2]) =>
         /\ op_outcome = "returned"
         /\ op_result[1] = Some(DecimalVal(Split(result[2], SP)[1]))
         /\ op_result[2] = Some(DecimalVal(Split(result[2], SP)[2]))
         /\ op_result[3] = Split(result[2], SP)[3]
    /\ result[2] # <<>> /\ ~EventGrammar(result[2]) => op_outcome # "returned"

\* C19: when the GET command, answered by a whole line, was unsuccessful get_message returns
\* (False, error_code), with an index above 0 and without one (or with index
\* 0) alike; and it returns (True, None) only when the command succeeded and
\* no message was pending.
C19_GetMessageError ==
  OpDone("get_message") /\ outcome = "returned" /\ ArrivedWhole =>
    /\ ~result[1] =>
         op_outcome = "returned" /\ op_result = FlagResult(FALSE, result[3])
    /\ op_outcome = "returned" /\ op_result = FlagResult(TRUE, None) =>
         result[1] /\ result[2] = <<>>

\* The reset line was driven low, later high, and every write to the
\* transport came after that.
ResetThenWrites ==
  \E i \in 1..Len(trace) : \E j \in (i + 1)..Len(trace) :
    /\ trace[i] = "reset_low"
    /\ trace[j] = "reset_high"
    /\ \A w \in Writes : w > j

\* C17: when a reset pin was given, construction drives the reset line low,
\* then high, and writes the self-test probe only after that, on CircuitPython
\* and on MicroPython.
C17_ResetBeforeProbe ==
  caller = "init" /\ pc # "construct" /\ reset_pin => ResetThenWrites

\* A cmd call is running or has ended.
InCmd ==
  /\ caller = "none"
  /\ pc \in {"cmd_sent", "cmd_status", "cmd_more", "done"}
  /\ trace # <<>>

\* The count of continuation lines that the status line of the call declares:
\* the number between 'OK' and the first space (an escaped CR or LF next to
\* its digits does not keep it from being read as a number).
DeclaredCount ==
  IF StatusRead /\ StartsWith(StatusLine, OK)
  THEN LET rest == DropFirst(StatusLine, 2)
           r == Find(rest, SP)
       IN  IF r > 0 /\ IntParses(TakeFirst(rest, r))
           THEN DecimalVal(Strip(TakeFirst(rest, r)))
           ELSE 0
  ELSE 0

\* C18: the transport operations of a cmd call are, in this order: the
\* discard of stale input exactly when the transport offers it, one write of
\* the frame, then reads only, one for the status line and at most N for the
\* continuation lines, N being the count the status line declares; a call that
\* returned has read the status line.
C18_CmdTrace ==
  InCmd =>
    LET d == IF hasDiscard THEN 1 ELSE 0
    IN  /\ Len(trace) >= d + 1
        /\ hasDiscard => trace[1] = "discard"
        /\ trace[d + 1] = "write"
        /\ Writes = {d + 1}
        /\ \A i \in (d + 2)..Len(trace) : trace[i] = "read"
        /\ Cardinality(Reads) <= 1 + DeclaredCount
        /\ pc = "cmd_sent" => tx = Frame(command) /\ Reads = {}
        /\ pc = "done" /\ outcome = "returned" => Cardinality(Reads) >= 1

\* C18 witness: on a transport without reset_input_buffer a call has written
\* once and read a status line that declares two lines, and those two lines.
C18_Witness ==
  /\ InCmd
  /\ pc = "done"
  /\ ~hasDiscard
  /\ DeclaredCount = 2
  /\ trace = <<"write", "read", "read", "read">>

\* The case of C20: the status line arrived whole, begins with 'OK', and what
\* follows does not begin with a decimal integer and a space.
C20_Case ==
  /\ CmdDone
  /\ StatusRead
  /\ ~reads[1].timeout
  /\ StartsWith(StatusLine, OK)
  /\ ~HasLeadingNumber(DropFirst(StatusLine, 2))

\* C20: a success line without a count makes cmd read no further line and
\* return success with what follows 'OK', trimmed, as the payload; cmd does not
\* raise.
C20_NoCountNoMoreLines ==
  C20_Case =>
    /\ outcome = "returned"
    /\ Len(reads) = 1
    /\ result = <<TRUE, Strip(DropFirst(StatusLine, 2)), None>>

\* What follows the count in the status line of the call.
AfterCount == DropFirst(DropFirst(StatusLine, 2), Find(DropFirst(StatusLine, 2), SP))

\* The case of C21: the status line declared N >= 1 continuation lines and
\* the last continuation read of the call, the j-th with j <= N, gave an empty
\* line (the transport sent an empty line, or nothing within the polls).
C21_Case ==
  /\ CmdDone
  /\ StatusRead
  /\ DeclaredCount >= 1
  /\ Len(reads) >= 2
  /\ Len(reads) - 1 <= DeclaredCount
  /\ ~reads[Len(reads)].raised
  /\ reads[Len(reads)].line = <<>>

\* C21: when the j-th continuation read gives an empty line, cmd reads no
\* further line and returns success with the payload made of what followed the
\* count and the first j-1 continuation lines (joined by newlines, trimmed at
\* its two ends).
C21_EarlyStop ==
  /\ C21_Case =>
       /\ outcome = "returned"
       /\ Cardinality(Reads) = Len(reads)
       /\ result = <<TRUE, Strip(JoinedFrom(AfterCount, Len(reads) - 1)), None>>
  /\ pc = "cmd_more" => \A i \in 2..Len(reads) : reads[i].line # <<>>

\* C21 witness: two lines were declared, the first continuation line was 'x'
\* and the second read gave nothing; the payload is 'x', LF, 'x'.
C21_Witness ==
  /\ C21_Case
  /\ DeclaredCount = 2
  /\ Len(reads) = 3
  /\ result = <<TRUE, <<"x", LF, "x">>, None>>

\* The polls of the first i reads of the call.
RECURSIVE PollsOf(_)
PollsOf(i) == IF i = 0 THEN 0 ELSE PollsOf(i - 1) + reads[i].polls

\* No _readline of the call polled more than 300 times, and the call as a
\* whole polled at most 300 * (1 + N) times, N being the count its status line
\* declares.
PollsBounded ==
  /\ \A i \in 1..Len(reads) : reads[i].polls <= 300
  /\ InCmd => PollsOf(Len(reads)) <= 300 * (1 + DeclaredCount)

\* C22: whatever the transport delivers (nothing, chunks, data that is never
\* terminated), every _readline ends within 300 polls, a cmd call polls at most
\* 300 * (1 + N) times, and every cmd call that was started ends.
C22_Termination ==
  /\ []PollsBounded
  /\ (pc \in {"cmd_sent", "cmd_status", "cmd_more"}) ~> (pc = "done")

\* C22 witness: a call whose status line declared two lines has ended after
\* 900 polls: each of its three lines was completed at the last poll.
C22_Witness ==
  /\ InCmd
  /\ pc = "done"
  /\ DeclaredCount = 2
  /\ Len(reads) = 3
  /\ PollsOf(3) = 900
  /\ \A i \in 1..3 : ~reads[i].timeout

\* The bytes of a delivery, put end to end.
RECURSIVE WholeLine(_)
WholeLine(sched) == IF sched = <<>> THEN <<>> ELSE Head(sched).chunk \o WholeLine(Tail(sched))

\* The last chunk of the delivery arrives within the 300 polls.
FitsInPolls(sched) == sched[Len(sched)].at <= 300

\* C23: a line delivered in chunks, with empty polls in between, within the
\* 300 polls, is returned by _readline as the same decoded line (or fails to
\* decode in the same way) as when it arrives whole at the first poll.
C23_ChunkingIndependence ==
  (rl_pc = "done" /\ FitsInPolls(rl_sched)) =>
     LET whole == _readline(<<[at |-> 1, chunk |-> WholeLine(rl_sched)]>>)
     IN  /\ ~rl_out.timeout
         /\ rl_out.raised = whole.raised
         /\ rl_out.line = whole.line

\* C23 witness: a two-byte character cut between its bytes, the line in three
\* chunks of which the last arrives at the 300th poll.
C23_Witness ==
  /\ rl_pc = "done"
  /\ Len(rl_sched) = 3
  /\ rl_sched[1].chunk = <<"xC3">>
  /\ rl_sched[2].at = 2
  /\ rl_sched[3].at = 300
  /\ ~rl_out.raised
  /\ rl_out.line = <<"e_acute", "x">>

\* The attempts of the self_test call in which the write or the read raised.
RaisedAttempts ==
  { i \in 1..Len(attempts) : attempts[i] \in {"write_raised", "read_raised"} }

\* C24: an attempt before the fifth in which the write or the read raised does
\* not end self_test: the next attempt is made, no exception reaches the
\* caller, and when a later attempt yields the success token self_test returns
\* True and __init__ sets ready to True.
C24_AttemptsIndependent ==
  /\ pc = "selftest" => outcome \in {"none", "returned"}
  /\ SelfTestDone =>
       /\ outcome = "returned"
       /\ \A i \in RaisedAttempts : i < 5 => Len(attempts) > i
       /\ attempts[Len(attempts)] = "ok" =>
            /\ result = <<TRUE>>
            /\ caller = "init" => ready = "true"

\* C24 witness: the write of the first attempt raised, the read of the second
\* raised, the third attempt succeeded and the constructed channel is ready.
C24_Witness ==
  /\ SelfTestDone
  /\ caller = "init"
  /\ attempts = <<"write_raised", "read_raised", "ok">>
  /\ result = <<TRUE>>
  /\ ready = "true"

\* A get_topic or a set_topic call has ended.
TopicCallDone == (OpDone("get_topic") \/ OpDone("set_topic"))

\* C25: a get_topic or set_topic call that ended without success (its command
\* was answered with an error, or raised) leaves the cache as it was when the
\* call began; one that ended with success leaves it with the name of the call
\* at the index of the call and nothing else changed.
C25_CacheOnlyOnSuccess ==
  TopicCallDone =>
    /\ op_outcome # "returned" => _topics = topics_before
    /\ op_outcome = "returned" =>
         /\ op_arg[1] \in DOMAIN _topics
         /\ \A i \in DOMAIN _topics : i # op_arg[1] =>
              i \in DOMAIN topics_before /\ _topics[i] = topics_before[i]
====
